---- MODULE Spec2Model ----
(***************************************************************************)
(* git-status-dash: the scan pass of the Go implementation (Spec,          *)
(* FairSpec), the dashboard that runs scan passes as commands (TuiSpec,    *)
(* ViewSpec) and the config subcommands (ConfigSpec).                      *)
(*                                                                         *)
(* findGitRepos walks the directory tree below baseDir (walkWithDepth),    *)
(* starts one goroutine per directory in which it finds a .git directory,  *)
(* each goroutine runs getGitStatus and appends its GitStatus to the       *)
(* shared slice under a mutex, and findGitRepos waits for all of them      *)
(* (sync.WaitGroup) before it sorts the slice by ModTime and returns.      *)
(*                                                                         *)
(* Paths are sequences of directory names relative to baseDir (<<>> is     *)
(* baseDir itself).  The output of a git subprocess is a sequence of       *)
(* one-character strings, so that strings.TrimSpace is modelled by what    *)
(* it does.  Only directory entries are modelled: walkWithDepth skips      *)
(* every entry that is not a directory (line 398).                         *)
(*                                                                         *)
(* The dashboard is the Bubble Tea program of runTUI: Update handles the   *)
(* messages one at a time, in the order in which they were sent; a command *)
(* (scanRepos, watchForChanges) runs in a goroutine of its own and sends   *)
(* its message when it returns.  Several scanRepos commands can be in      *)
(* flight; each is taken in three kinds of step: the walk (WalkResult),    *)
(* one step per probe goroutine, and the return of findGitRepos.  Of the   *)
(* model struct the fields repos, loading, lastUpdate, cache, watcher,     *)
(* cursor and showDetail are modelled; the update counter, the matrix      *)
(* mode and the animations are not.  TuiSpec has the watcher, the clock    *)
(* and the keys q and r; ViewSpec has the keys that move the cursor and    *)
(* open the detail view, repositories that change while the dashboard      *)
(* runs, and scans that are numbered in the order of their start.          *)
(*                                                                         *)
(* The config subcommands work on config.json and on the themes directory  *)
(* of the configuration directory; ConfigSpec runs them one after the      *)
(* other and then starts the dashboard.                                    *)
(***************************************************************************)
EXTENDS Integers, Sequences, FiniteSets, TLC

VARIABLES
    tree,       \* the directories that exist below baseDir (a set of paths)
    maxDepth,   \* the depth limit passed to findGitRepos (-1: unlimited)
    gitEnv,     \* per repository root: what its git queries and os.Stat answer
    unreadable, \* the directories os.ReadDir (fs.readdir) fails on
    workers,    \* UserConfig.Performance.Workers
    stack,      \* the activations of walkWithDepth, innermost last
    probes,     \* the goroutines started by walkWithDepth, in start order
    wg,         \* the sync.WaitGroup counter
    repos,      \* the shared []GitStatus slice
    pc,         \* findGitRepos: "walk", "wait" (wg.Wait) or "done" (returned)
    cache,      \* the map[string]GitStatus handed to findGitRepos (m.cache)
    showAll,    \* config.All
    mRepos,     \* m.repos: the list the dashboard displays
    loading,    \* m.loading
    age,        \* time.Since(m.lastUpdate) in seconds, up to Debounce + 1
    msgs,       \* the messages sent to the program and not yet handled by Update
    scans,      \* the scanRepos commands in flight, one per slot
    armed,      \* the watchForChanges commands waiting for a watcher event
    watched,    \* the repositories the watcher watches
    run,        \* the program: "running", "quit" (tea.Quit returned) or "exited"
    configFile, \* config.json in the configuration directory
    themeFiles, \* the names of the theme files in its themes directory
    systemTheme,\* what detectSystemTheme returns: "dark", "light" or "auto"
    cmd,        \* the command line that ran last and the error it ended with
    cursor,     \* m.cursor
    showDetail, \* m.showDetail
    started,    \* the number of scanRepos commands started so far (0: not counted)
    shown       \* the number of the scan m.repos comes from (0: none, or not counted)

\* what a scan pass is given and does not change
given == <<tree, maxDepth, gitEnv, unreadable, workers>>

\* the state of one call of findGitRepos taken step by step
pass == <<stack, probes, wg, repos, pc>>

\* the state of the dashboard
program == <<showAll, mRepos, loading, age, msgs, scans, armed, watched, run>>

setup == <<configFile, themeFiles, systemTheme, cmd>>

\* the selection of the dashboard, and the history of its scans
view == <<cursor, showDetail>>

history == <<started, shown>>

vars == <<given, pass, cache, program, setup, view, history>>

----------------------------------------------------------------------------
(* Bounds of the model *)

\* the largest number of directories below baseDir (.git directories included)
MaxDirs == 4
\* the largest finite depth limit tried
MaxDepthLimit == 2
\* the largest ahead/behind count a repository has
MaxCount == 2
\* the latest modification time a repository root has (0: os.Stat failed)
MaxModTime == 2
\* the largest number of directories that cannot be read
MaxUnreadable == 1
\* the largest configured worker count
MaxWorkers == 2

----------------------------------------------------------------------------
(* The file system *)

\* The directory names of the model, in the order os.ReadDir returns them
\* (sorted by filename: ".cache" < ".config" < ".git" < "node_modules" <
\* "vendor").
DirNames == <<".cache", ".config", ".git", "node_modules", "vendor">>

GitDir == ".git"

NameSet == {DirNames[i] : i \in DOMAIN DirNames}

IsGitDir(p) == Len(p) > 0 /\ p[Len(p)] = GitDir

\* the directories that can be added to tree t: a child of a directory of t
\* that is not itself a .git directory
ChildPaths(t) ==
    {c \in UNION {{Append(p, n) : n \in NameSet} : p \in {q \in t : ~IsGitDir(q)}} :
        c \notin t}

RECURSIVE TreesUpTo(_)
TreesUpTo(n) ==
    IF n = 0 THEN {{<<>>}}
    ELSE LET prev == TreesUpTo(n - 1)
         IN  prev \cup UNION {{t \cup {c} : c \in ChildPaths(t)} : t \in prev}

Trees == TreesUpTo(MaxDirs)

\* the directories of t that directly contain a .git directory
RepoRoots(t) == {p \in t : Append(p, GitDir) \in t}

\* os.ReadDir: the entries of directory p, sorted by filename
ReadDir(t, p) == SelectSeq(DirNames, LAMBDA n : Append(p, n) \in t)

IsPrefix(p, q) == Len(p) <= Len(q) /\ SubSeq(q, 1, Len(p)) = p

IsProperPrefix(p, q) == Len(p) < Len(q) /\ IsPrefix(p, q)

----------------------------------------------------------------------------
(* The git queries of one probe *)

\* the five subprocess calls of getGitStatus, in the order it makes them
QStatus == 1
QAhead == 2
QBehind == 3
QBranch == 4
QCommit == 5

\* What one repository answers.  status: "fail" (git status exits non-zero),
\* "clean" or "dirty"; ahead, behind: the count, or -1 when rev-list fails
\* (no upstream configured); branch: "ok", "unborn" (no commit yet: git
\* rev-parse --abbrev-ref HEAD prints HEAD and exits 128) or "fail" (it
\* exits non-zero with nothing printed); commit: whether the query succeeds;
\* hang: the query during which the 5 s deadline of the probe's context
\* expires (0: never); modTime: what os.Stat reports (0: os.Stat failed).
GitEnvs ==
    [status : {"fail", "clean", "dirty"},
     ahead : -1 .. MaxCount,
     behind : -1 .. MaxCount,
     branch : {"ok", "unborn", "fail"},
     commit : BOOLEAN,
     hang : 0 .. QCommit,
     modTime : 0 .. MaxModTime]

Healthy == [status |-> "clean", ahead |-> 0, behind |-> 0, branch |-> "ok",
            commit |-> TRUE, hang |-> 0, modTime |-> 1]

\* the repository states tried when a tree holds several directories
EnvProfiles ==
    {Healthy,
     [Healthy EXCEPT !.status = "dirty", !.ahead = -1, !.behind = -1, !.modTime = 2],
     [Healthy EXCEPT !.status = "fail"],
     [Healthy EXCEPT !.ahead = 1, !.hang = QStatus, !.modTime = 2]}

RECURSIVE Digits(_)
\* a count as git prints it
Digits(n) ==
    IF n < 10 THEN <<ToString(n)>> ELSE Digits(n \div 10) \o <<ToString(n % 10)>>

Failed == [err |-> TRUE, out |-> <<>>]

\* a subprocess that exits non-zero after it has printed chars: Output()
\* returns what was printed along with the error
FailedAfter(chars) == [err |-> TRUE, out |-> chars]

Printed(chars) == [err |-> FALSE, out |-> chars]

\* what the git subprocess of query q does in a repository in state e when
\* it is left to run: its exit status and its standard output
GitRun(e, q) ==
    CASE q = QStatus ->
            IF e.status = "fail" THEN Failed
            ELSE IF e.status = "clean" THEN Printed(<<>>)
            ELSE Printed(<<" ", "M", " ", "f", "\n">>)
      [] q = QAhead ->
            IF e.ahead < 0 THEN Failed ELSE Printed(Digits(e.ahead) \o <<"\n">>)
      [] q = QBehind ->
            IF e.behind < 0 THEN Failed ELSE Printed(Digits(e.behind) \o <<"\n">>)
      [] q = QBranch ->
            IF e.branch = "ok" THEN Printed(<<"m", "a", "i", "n", "\n">>)
            ELSE IF e.branch = "unborn" THEN FailedAfter(<<"H", "E", "A", "D", "\n">>)
            ELSE Failed
      [] q = QCommit ->
            IF e.commit THEN Printed(<<"a", "1", " ", "2", "d", " ", "e", "j", "\n">>)
            ELSE Failed

\* exec.CommandContext(ctx, ...).Output(): the subprocess is killed when the
\* context's deadline expires, and a command started on an expired context
\* fails at once; either way err is set and nothing was printed
Output(e, q) ==
    IF e.hang # 0 /\ q >= e.hang THEN Failed ELSE GitRun(e, q)

Whitespace == {" ", "\n", "\t", "\r"}

RECURSIVE TrimLeft(_)
TrimLeft(s) ==
    IF s # <<>> /\ Head(s) \in Whitespace THEN TrimLeft(Tail(s)) ELSE s

RECURSIVE TrimRight(_)
TrimRight(s) ==
    IF s # <<>> /\ s[Len(s)] \in Whitespace
    THEN TrimRight(SubSeq(s, 1, Len(s) - 1)) ELSE s

\* strings.TrimSpace
TrimSpace(s) == TrimRight(TrimLeft(s))

\* fmt.Sprintf with %s verbs: the format and the strings substituted into it
Sprintf(format, args) == [fmt |-> format, args |-> args]

\* the Symbol glyphs of GitStatus
SymSynced == "SYNCED"       \* U+2713 check mark
SymDiverged == "DIVERGED"   \* U+2195 up down arrow
SymAhead == "AHEAD"         \* U+2191 upwards arrow
SymBehind == "BEHIND"       \* U+2193 downwards arrow
SymDirty == "DIRTY"         \* U+2717 ballot x
SymError == "ERROR"         \* U+26A0 warning sign

Zero == <<"0">>

\* the chain with the dirty branch tested before the ahead/behind branches
ClassifyDirtyFirst(statusStr, ahead, behind) ==
    IF statusStr = <<>> /\ ahead = Zero /\ behind = Zero
    THEN [Symbol |-> SymSynced, Message |-> Sprintf("Up to date", <<>>)]
    ELSE IF statusStr # <<>>
    THEN [Symbol |-> SymDirty, Message |-> Sprintf("Uncommitted changes", <<>>)]
    ELSE IF ahead # Zero /\ behind # Zero
    THEN [Symbol |-> SymDiverged,
          Message |-> Sprintf("Diverged (%s ahead, %s behind)", <<ahead, behind>>)]
    ELSE IF ahead # Zero
    THEN [Symbol |-> SymAhead, Message |-> Sprintf("%s commit(s) to push", <<ahead>>)]
    ELSE [Symbol |-> SymBehind, Message |-> Sprintf("%s commit(s) to pull", <<behind>>)]

\* the if/else chain of getGitStatus: the trimmed outputs of the status,
\* ahead and behind queries give the Symbol and the Message
Classify(statusStr, ahead, behind) ==
    IF statusStr = <<>> /\ ahead = Zero /\ behind = Zero
    THEN [Symbol |-> SymSynced, Message |-> Sprintf("Up to date", <<>>)]
    ELSE IF ahead # Zero /\ behind # Zero
    THEN [Symbol |-> SymDiverged,
          Message |-> Sprintf("Diverged (%s ahead, %s behind)", <<ahead, behind>>)]
    ELSE IF ahead # Zero
    THEN [Symbol |-> SymAhead, Message |-> Sprintf("%s commit(s) to push", <<ahead>>)]
    ELSE IF behind # Zero
    THEN [Symbol |-> SymBehind, Message |-> Sprintf("%s commit(s) to pull", <<behind>>)]
    ELSE [Symbol |-> SymDirty, Message |-> Sprintf("Uncommitted changes", <<>>)]

\* the initial GitStatus optimistic instead of fail-safe
ErrorStatusUpToDate(repoPath, e) ==
    [Symbol |-> SymSynced,
     Message |-> Sprintf("Up to date", <<>>),
     Branch |-> <<>>,
     LastCommit |-> <<>>,
     RepoPath |-> repoPath,
     RelativePath |-> repoPath,
     ModTime |-> e.modTime]

\* the GitStatus that getGitStatus builds before its first query and returns
\* unchanged when the status query fails
ErrorStatus(repoPath, e) ==
    [Symbol |-> SymError,
     Message |-> Sprintf("Error accessing repository", <<>>),
     Branch |-> <<>>,
     LastCommit |-> <<>>,
     RepoPath |-> repoPath,
     RelativePath |-> repoPath,
     ModTime |-> e.modTime]

\* getGitStatus(repoPath, baseDir, cache) in a repository in state e; the
\* cache argument is never read or written
getGitStatus(repoPath, e) ==
    LET status == ErrorStatus(repoPath, e)
        statusRes == Output(e, QStatus)
    IN  IF statusRes.err THEN status
        ELSE LET ahead == TrimSpace(Output(e, QAhead).out)
                 behind == TrimSpace(Output(e, QBehind).out)
                 branch == TrimSpace(Output(e, QBranch).out)
                 commit == TrimSpace(Output(e, QCommit).out)
                 statusStr == TrimSpace(statusRes.out)
                 c == Classify(statusStr, ahead, behind)
             IN  [status EXCEPT !.Branch = branch, !.LastCommit = commit,
                                !.Symbol = c.Symbol, !.Message = c.Message]

\* one context shared by all probes: a deadline that expires in one
\* repository cancels the queries of every other
ProbeEnvSharedContext(env, rp) ==
    IF \E other \in DOMAIN env : other # rp /\ env[other].hang # 0
    THEN [env[rp] EXCEPT !.hang = QStatus] ELSE env[rp]

\* one deadline for the whole pass: only the probe that finishes first
\* beats it
ProbeEnvSharedDeadline(env, rp) ==
    IF repos = <<>> THEN env[rp] ELSE [env[rp] EXCEPT !.hang = QStatus]

\* the state of its own repository is all a probe goroutine reads: it gets
\* repoPath by value and getGitStatus makes a context of its own
ProbeEnv(env, rp) == env[rp]

----------------------------------------------------------------------------
(* The walker *)

Unlimited == -1

DepthLimits == {Unlimited} \cup 0 .. MaxDepthLimit

\* the depth check off by one: the limit itself is already too deep
DepthExceededOffByOne(currentDepth, limit) == limit # Unlimited /\ currentDepth >= limit

\* the guard of walkWithDepth's first statement
DepthExceeded(currentDepth, limit) == limit # Unlimited /\ currentDepth > limit

\* the names walkWithDepth does not descend into
SkipNames == {"node_modules", ".cache", ".venv"}

\* the skip check without node_modules
SkipDirForgetsNodeModules(name) == name \in {".cache", ".venv"}

SkipDir(name) == name \in SkipNames

Frame(path, depth) == [path |-> path, depth |-> depth, idx |-> 1]

\* a failed os.ReadDir gives up the whole walk: every activation returns
CallAbortsOnError(stk, path, depth) ==
    IF DepthExceeded(depth, maxDepth) THEN stk
    ELSE IF path \in unreadable THEN <<>>
    ELSE Append(stk, Frame(path, depth))

\* a call walkWithDepth(path, baseDir, depth, ...): it returns at once when
\* the depth limit is exceeded or os.ReadDir fails, otherwise it starts its
\* loop over the entries
Call(stk, path, depth) ==
    IF DepthExceeded(depth, maxDepth) \/ path \in unreadable THEN stk
    ELSE Append(stk, Frame(path, depth))

Top == stack[Len(stack)]

Pop == SubSeq(stack, 1, Len(stack) - 1)

Entries == ReadDir(tree, Top.path)

AtEntry == pc = "walk" /\ stack # <<>> /\ Top.idx <= Len(Entries)

Entry == Entries[Top.idx]

\* findGitRepos goes on to wg.Wait() when the outermost walkWithDepth returns
PcAfter(stk) == IF stk = <<>> THEN "wait" ELSE "walk"

\* the entry is .git: start the probe goroutine for the current directory
\* and return from this activation
WalkGitEntry ==
    /\ AtEntry
    /\ Entry = GitDir
    /\ wg' = wg + 1
    /\ probes' = Append(probes, [rp |-> Top.path, done |-> FALSE])
    /\ stack' = Pop
    /\ pc' = PcAfter(stack')
    /\ UNCHANGED <<given, setup, view, history, cache, program, repos>>

\* the entry is one of the skipped names: continue with the next entry
WalkSkipEntry ==
    /\ AtEntry
    /\ Entry # GitDir
    /\ SkipDir(Entry)
    /\ stack' = [stack EXCEPT ![Len(stack)].idx = @ + 1]
    /\ UNCHANGED <<given, setup, view, history, cache, program, probes, wg, repos, pc>>

\* any other directory: the recursive call
WalkRecurse ==
    /\ AtEntry
    /\ Entry # GitDir
    /\ ~SkipDir(Entry)
    /\ stack' = Call([stack EXCEPT ![Len(stack)].idx = @ + 1],
                     Append(Top.path, Entry), Top.depth + 1)
    /\ pc' = PcAfter(stack')
    /\ UNCHANGED <<given, setup, view, history, cache, program, probes, wg, repos>>

\* the loop over the entries ends: this activation returns
WalkReturn ==
    /\ pc = "walk"
    /\ stack # <<>>
    /\ Top.idx > Len(Entries)
    /\ stack' = Pop
    /\ pc' = PcAfter(stack')
    /\ UNCHANGED <<given, setup, view, history, cache, program, probes, wg, repos>>

\* The goroutine started for probes[i]: getGitStatus, then the append to the
\* shared slice under the mutex, then the deferred wg.Done().  getGitStatus
\* touches no shared state, so the goroutine is one step.
ProbeGoroutine(i) ==
    /\ ~probes[i].done
    /\ repos' = Append(repos, getGitStatus(probes[i].rp, ProbeEnv(gitEnv, probes[i].rp)))
    /\ probes' = [probes EXCEPT ![i].done = TRUE]
    /\ wg' = wg - 1
    /\ UNCHANGED <<given, setup, view, history, cache, program, stack, pc>>

\* findGitRepos without wg.Wait()
NoWait(counter) == TRUE

\* wg.Wait() returns when the counter is zero
WaitDone(counter) == counter = 0

\* the less function with Before for After: oldest first
LessOldestFirst(a, b) == a.ModTime < b.ModTime

\* the less function handed to sort.Slice: ModTime.After
Less(a, b) == a.ModTime > b.ModTime

Orderings(n) ==
    {f \in [1 .. n -> 1 .. n] : \A i, j \in 1 .. n : i # j => f[i] # f[j]}

\* sort.Slice(repos, less): some permutation of the slice that is ordered by
\* less; sort.Slice does not promise to keep equal elements in their order
SortSlice(s) ==
    {[i \in 1 .. Len(s) |-> s[f[i]]] : f \in
        {g \in Orderings(Len(s)) :
            \A i, j \in 1 .. Len(s) : i < j => ~Less(s[g[j]], s[g[i]])}}

\* findGitRepos after the walk: wg.Wait(), sort.Slice, return
FindGitReposReturn ==
    /\ pc = "wait"
    /\ WaitDone(wg)
    /\ \E sorted \in SortSlice(repos) : repos' = sorted
    /\ pc' = "done"
    /\ UNCHANGED <<given, setup, view, history, cache, program, stack, probes, wg>>

----------------------------------------------------------------------------
(* The walk as a function of the tree *)

RECURSIVE WalkFrom(_, _), WalkEntriesFrom(_, _, _)
\* the repository roots the call walkWithDepth(path, baseDir, depth, ...)
\* starts goroutines for, in the order in which it starts them
WalkFrom(path, depth) ==
    IF DepthExceeded(depth, maxDepth) \/ path \in unreadable THEN <<>>
    ELSE WalkEntriesFrom(path, depth, 1)

\* the same for the loop over the entries of path, from entry idx on
WalkEntriesFrom(path, depth, idx) ==
    LET entries == ReadDir(tree, path)
    IN  IF idx > Len(entries) THEN <<>>
        ELSE IF entries[idx] = GitDir THEN <<path>>
        ELSE IF SkipDir(entries[idx]) THEN WalkEntriesFrom(path, depth, idx + 1)
        ELSE WalkFrom(Append(path, entries[idx]), depth + 1)
                 \o WalkEntriesFrom(path, depth, idx + 1)

\* walkWithDepth(baseDir, baseDir, 0, maxDepth, ...)
WalkResult == WalkFrom(<<>>, 0)

----------------------------------------------------------------------------
(* The Node.js walker (index.mjs) *)

\* depthLimit when no --depth option is given.  Infinity - 1 = Infinity; a
\* negative depthLeft behaves alike, it never reaches 0 by decrements.
Infinity == -1

\* the SKIP set of walkRepos
SKIP == {".git", "node_modules", ".cache", ".venv"}

\* isGitRepo(dirPath): dirPath/.git exists and is a directory
isGitRepo(t, dir) == Append(dir, GitDir) \in t

RECURSIVE walkRepos(_, _, _)
\* walkRepos(dir, list, depthLeft): the repository roots it pushes on list.
\* isGitRepo stats dir/.git and does not list dir, so it answers for a
\* directory that cannot be read too; fs.readdir throws on such a directory
\* and the catch returns the list as it is.
walkRepos(t, dir, depthLeft) ==
    IF isGitRepo(t, dir) THEN {dir}
    ELSE IF depthLeft = 0 THEN {}
    ELSE IF dir \in unreadable THEN {}
    ELSE UNION {walkRepos(t, Append(dir, n), depthLeft - 1) :
                    n \in {m \in NameSet : Append(dir, m) \in t /\ m \notin SKIP}}

\* getGitRepos(options.directory, depthLimit) for the depth limit of this pass
NodeRepos == walkRepos(tree, <<>>, IF maxDepth = Unlimited THEN Infinity ELSE maxDepth)

----------------------------------------------------------------------------
(* The dashboard *)

\* the largest number of scanRepos commands in flight
MaxScans == 2
\* the largest number of messages waiting for Update
MaxMsgs == 2

\* the debounce of the fileChangeMsg handler, in seconds
Debounce == 2

\* make(map[string]GitStatus)
EmptyCache == <<>>

ScanIds == 1 .. MaxScans

Idle == [phase |-> "idle", pending |-> {}, results |-> <<>>, no |-> 0]

\* a scanRepos command that has not started its walk
NewScan == [phase |-> "start", pending |-> {}, results |-> <<>>, no |-> 0]

Active(scs) == {k \in ScanIds : scs[k].phase # "idle"}

\* the number of the scan that is started next, where scans are counted
NextNo == IF started = 0 THEN 0 ELSE started + 1

\* Update returns a scanRepos command and Bubble Tea runs it: it takes the
\* first free slot
StartScan(scs) ==
    LET k == CHOOSE i \in ScanIds \ Active(scs) : \A j \in ScanIds \ Active(scs) : i <= j
    IN  [scs EXCEPT ![k] = [NewScan EXCEPT !.no = NextNo]]

KeyMsg(key) == [type |-> "key", key |-> key, repos |-> <<>>, no |-> 0]

\* the result of a scan, and the number of the scan it is the result of
ReposFoundMsg(rs, no) == [type |-> "reposFound", key |-> "", repos |-> rs, no |-> no]

FileChangeMsg == [type |-> "fileChange", key |-> "", repos |-> <<>>, no |-> 0]

\* the messages whose handler may return a scanRepos command
StartsScan(msg) == msg = KeyMsg("r") \/ msg = FileChangeMsg

\* a message that may start a scan is sent only while a slot is left for it
ScanBudget ==
    Cardinality(Active(scans))
        + Cardinality({i \in DOMAIN msgs : StartsScan(msgs[i])}) < MaxScans

Range(s) == {s[i] : i \in DOMAIN s}

\* the user presses a key
KeyPress(key) ==
    /\ run = "running"
    /\ Len(msgs) < MaxMsgs
    /\ key = "r" => ScanBudget
    /\ msgs' = Append(msgs, KeyMsg(key))
    /\ UNCHANGED <<given, setup, view, history, pass, cache, showAll, mRepos, loading, age, scans, armed, watched, run>>

\* a scanRepos command walks the tree: findGitRepos calls walkWithDepth,
\* which starts a goroutine for every repository it finds
ScanWalk(k) ==
    /\ run # "exited"
    /\ scans[k].phase = "start"
    /\ scans' = [scans EXCEPT ![k] =
                     [phase |-> "probing", pending |-> Range(WalkResult), results |-> <<>>,
                      no |-> scans[k].no]]
    /\ UNCHANGED <<given, setup, view, history, pass, cache, showAll, mRepos, loading, age, msgs, armed, watched, run>>

\* the goroutine of scan k for repository rp: getGitStatus and the append
ScanProbe(k, rp) ==
    /\ run # "exited"
    /\ rp \in scans[k].pending
    /\ scans' = [scans EXCEPT ![k].pending = @ \ {rp},
                              ![k].results = Append(@, getGitStatus(rp, ProbeEnv(gitEnv, rp)))]
    /\ UNCHANGED <<given, setup, view, history, pass, cache, showAll, mRepos, loading, age, msgs, armed, watched, run>>

\* findGitRepos of scan k returns after wg.Wait() and sort.Slice, and the
\* command sends reposFoundMsg; nothing receives it once the program has quit
ScanReturn(k) ==
    /\ run # "exited"
    /\ scans[k].phase = "probing"
    /\ WaitDone(Cardinality(scans[k].pending))
    /\ \E sorted \in SortSlice(scans[k].results) :
          msgs' = IF run = "running" THEN Append(msgs, ReposFoundMsg(sorted, scans[k].no)) ELSE msgs
    /\ scans' = [scans EXCEPT ![k] = Idle]
    /\ UNCHANGED <<given, setup, view, history, pass, cache, showAll, mRepos, loading, age, armed, watched, run>>

\* Update has a message to handle
Handling(type) == run = "running" /\ msgs # <<>> /\ Head(msgs).type = type

\* case "ctrl+c", "q": return m, tea.Quit
UpdateQuit ==
    /\ Handling("key")
    /\ Head(msgs).key = "q"
    /\ run' = "quit"
    /\ msgs' = Tail(msgs)
    /\ UNCHANGED <<given, setup, view, history, pass, cache, showAll, mRepos, loading, age, scans, armed, watched>>

\* case "up", "k"
UpdateUp ==
    /\ Handling("key")
    /\ Head(msgs).key = "up"
    /\ cursor' = IF cursor > 0 THEN cursor - 1 ELSE cursor
    /\ msgs' = Tail(msgs)
    /\ UNCHANGED <<given, setup, history, pass, cache, showDetail,
                   showAll, mRepos, loading, age, scans, armed, watched, run>>

\* case "down", "j"
UpdateDown ==
    /\ Handling("key")
    /\ Head(msgs).key = "down"
    /\ cursor' = IF cursor < Len(mRepos) - 1 THEN cursor + 1 ELSE cursor
    /\ msgs' = Tail(msgs)
    /\ UNCHANGED <<given, setup, history, pass, cache, showDetail,
                   showAll, mRepos, loading, age, scans, armed, watched, run>>

\* s[i] of a Go slice is defined for 0 <= i < len(s) and panics otherwise
InRange(i, s) == 0 <= i /\ i < Len(s)

\* case "enter", " ": the detail view is toggled, and when it opens over a
\* list that is not empty, m.repos[m.cursor] is read; the index expression
\* panics when the cursor is out of range, and the program ends
UpdateEnter ==
    /\ Handling("key")
    /\ Head(msgs).key = "enter"
    /\ showDetail' = ~showDetail
    /\ run' = IF showDetail' /\ Len(mRepos) > 0 /\ ~InRange(cursor, mRepos)
              THEN "panic" ELSE run
    /\ msgs' = Tail(msgs)
    /\ UNCHANGED <<given, setup, history, pass, cache, cursor,
                   showAll, mRepos, loading, age, scans, armed, watched>>

\* case "esc"
UpdateEsc ==
    /\ Handling("key")
    /\ Head(msgs).key = "esc"
    /\ showDetail' = FALSE
    /\ msgs' = Tail(msgs)
    /\ UNCHANGED <<given, setup, history, pass, cache, cursor,
                   showAll, mRepos, loading, age, scans, armed, watched, run>>

\* outside the program: the work in repository rp is committed and pushed,
\* the repository is in sync from now on
RepoChanges(rp) ==
    /\ run = "running"
    /\ gitEnv[rp] # Healthy
    /\ gitEnv' = [gitEnv EXCEPT ![rp] = Healthy]
    /\ UNCHANGED <<tree, maxDepth, unreadable, workers, setup, view, history, pass, cache,
                   program>>

\* a refresh that does nothing while a scan is under way
RefreshUnlessLoading(scs) == IF loading THEN scs ELSE StartScan(scs)

\* the command the "r" case returns: scanRepos, whatever is in flight
ForceRefresh(scs) == StartScan(scs)

\* case "r": force refresh
UpdateRefresh ==
    /\ Handling("key")
    /\ Head(msgs).key = "r"
    /\ loading' = TRUE
    /\ age' = 0
    /\ cache' = EmptyCache
    /\ scans' = ForceRefresh(scans)
    /\ started' = NextNo
    /\ msgs' = Tail(msgs)
    /\ UNCHANGED <<given, setup, view, shown, pass, showAll, mRepos, armed, watched, run>>

\* the filter that drops the Error results too
UnsyncedAndHealthy(repo) == repo.Symbol \notin {SymSynced, SymError}

\* repo.Symbol != "\u2713"
Unsynced(repo) == repo.Symbol # SymSynced

RECURSIVE AppendUnsynced(_, _)
\* for _, repo := range repos { if ... { unsynced = append(unsynced, repo) } }
AppendUnsynced(unsynced, rest) ==
    IF rest = <<>> THEN unsynced
    ELSE AppendUnsynced(IF Unsynced(Head(rest)) THEN Append(unsynced, Head(rest))
                                                 ELSE unsynced,
                        Tail(rest))

\* what the reposFoundMsg handler assigns to m.repos
Displayed(rs) == IF ~showAll THEN AppendUnsynced(<<>>, rs) ELSE rs

\* case reposFoundMsg; setupWatchers adds the displayed repositories to the
\* watcher
UpdateReposFound ==
    /\ Handling("reposFound")
    /\ mRepos' = Displayed(Head(msgs).repos)
    /\ loading' = FALSE
    /\ age' = 0
    /\ watched' = watched \cup {mRepos'[i].RepoPath : i \in DOMAIN mRepos'}
    /\ shown' = Head(msgs).no
    /\ msgs' = Tail(msgs)
    /\ UNCHANGED <<given, setup, view, started, pass, cache, showAll, scans, armed, run>>

\* case fileChangeMsg: a rescan when the last update is more than two
\* seconds old, and watchForChanges again in both cases
UpdateFileChange ==
    /\ Handling("fileChange")
    /\ IF age > Debounce
       THEN /\ loading' = TRUE
            /\ age' = 0
            /\ scans' = StartScan(scans)
            /\ started' = NextNo
       ELSE UNCHANGED <<loading, age, scans, started>>
    /\ armed' = armed + 1
    /\ msgs' = Tail(msgs)
    /\ UNCHANGED <<given, setup, view, shown, pass, cache, showAll, mRepos, watched, run>>

\* a second passes
Tick ==
    /\ run = "running"
    /\ age <= Debounce
    /\ age' = age + 1
    /\ UNCHANGED <<given, setup, view, history, pass, cache, showAll, mRepos, loading, msgs, scans, armed, watched, run>>

\* a watchForChanges command receives an event of the watcher: it sends
\* fileChangeMsg when the name holds ".git" or ends in .go, .js or .py, and
\* returns nil otherwise
WatcherEvent(relevant) ==
    /\ run = "running"
    /\ armed > 0
    /\ watched # {}
    /\ relevant => Len(msgs) < MaxMsgs /\ ScanBudget
    /\ armed' = armed - 1
    /\ msgs' = IF relevant THEN Append(msgs, FileChangeMsg) ELSE msgs
    /\ UNCHANGED <<given, setup, view, history, pass, cache, showAll, mRepos, loading, age, scans, watched, run>>

\* p.Run() returns, runTUI and main return: the process exits and its
\* goroutines with it
Exit ==
    /\ run = "quit"
    /\ run' = "exited"
    /\ scans' = [k \in ScanIds |-> Idle]
    /\ msgs' = <<>>
    /\ armed' = 0
    /\ UNCHANGED <<given, setup, view, history, pass, cache, showAll, mRepos, loading, age, watched>>

----------------------------------------------------------------------------
(* The configuration directory and the config subcommands *)

\* A key of `config set` is the sequence of its parts between the dots; a
\* value is the sequence of its characters, as are the string fields a
\* value is stored in.  Theme names and the other strings are never taken
\* apart and stay strings.

StrTrue == <<"t", "r", "u", "e">>
StrFalse == <<"f", "a", "l", "s", "e">>

DigitChars == {"0", "1", "2", "3", "4", "5", "6", "7", "8", "9"}

DigitValue(c) ==
    CASE c = "0" -> 0 [] c = "1" -> 1 [] c = "2" -> 2 [] c = "3" -> 3
      [] c = "4" -> 4 [] c = "5" -> 5 [] c = "6" -> 6 [] c = "7" -> 7
      [] c = "8" -> 8 [] c = "9" -> 9

RECURSIVE ParseDigits(_)
ParseDigits(s) ==
    IF s = <<>> THEN 0
    ELSE 10 * ParseDigits(SubSeq(s, 1, Len(s) - 1)) + DigitValue(s[Len(s)])

\* strconv.Atoi: an optional sign and at least one decimal digit
Atoi(s) ==
    LET signed == s # <<>> /\ s[1] \in {"+", "-"}
        body == IF signed THEN Tail(s) ELSE s
    IN  IF body = <<>> \/ \E i \in DOMAIN body : body[i] \notin DigitChars
        THEN [err |-> TRUE, n |-> 0]
        ELSE [err |-> FALSE,
              n |-> IF signed /\ s[1] = "-" THEN 0 - ParseDigits(body)
                    ELSE ParseDigits(body)]

DefaultThemeNames == {"matrix", "minimal", "hacker", "neon"}

PopularThemeNames ==
    {"ayu-light", "ayu-dark", "catppuccin-latte", "catppuccin-mocha", "nord", "dracula"}

\* A ThemeConfig is modelled by its Name: the colours, symbols and effects
\* of a theme are the ones its table gives it.
defaultThemes == [name \in DefaultThemeNames |-> [Name |-> name]]

popularThemes == [name \in PopularThemeNames |-> [Name |-> name]]

\* UserConfig.SkipDirs as getDefaultConfig sets it
SkipDirs ==
    {"node_modules", ".cache", ".venv", "venv", "__pycache__",
     ".tox", "build", "dist", ".npm", ".yarn", "vendor",
     "target", ".gradle", ".idea", ".vscode", "Pods", "DerivedData",
     ".git", ".svn", ".hg", ".bzr",
     "coverage", ".nyc_output", ".pytest_cache",
     "logs", "tmp", "temp", ".tmp"}

\* runtime.NumCPU()
NumCPU == 2

\* var config UserConfig: every field has the zero value of its type
ZeroConfig ==
    [Theme |-> [Name |-> ""],
     Performance |-> [Workers |-> 0, Timeout |-> 0, MaxDepth |-> 0, BatchSize |-> 0],
     Display |-> [ColumnWidth |-> 0, ShowBranch |-> FALSE, ShowCommit |-> FALSE,
                  ShowTimestamp |-> FALSE, CompactMode |-> FALSE, TreeView |-> FALSE,
                  TimeFormat |-> "", FlashOnChange |-> FALSE, ShowIcons |-> FALSE,
                  GroupByStatus |-> FALSE],
     Filter |-> [ShowSynced |-> FALSE, ShowAhead |-> FALSE, ShowBehind |-> FALSE,
                 ShowDirty |-> FALSE, ShowError |-> FALSE, HiddenStates |-> <<>>,
                 OnlyRecent |-> FALSE, RecentDays |-> 0],
     Behavior |-> [AutoRefresh |-> FALSE, RefreshInterval |-> 0, DefaultMode |-> "",
                   WatchFiles |-> FALSE, TTLMode |-> FALSE, TTLSeconds |-> 0,
                   SoundOnChange |-> FALSE, NotifyOnChange |-> FALSE,
                   ExitOnComplete |-> FALSE],
     Notifications |-> [Enabled |-> FALSE, OnStates |-> <<>>, SoundFile |-> <<>>,
                        Title |-> <<>>, Message |-> <<>>],
     SkipDirs |-> {}]

getDefaultConfig ==
    [Theme |-> defaultThemes["matrix"],
     Performance |-> [Workers |-> NumCPU * 2, Timeout |-> 3, MaxDepth |-> -1,
                      BatchSize |-> 10],
     Display |-> [ColumnWidth |-> 30, ShowBranch |-> TRUE, ShowCommit |-> TRUE,
                  ShowTimestamp |-> FALSE, CompactMode |-> FALSE, TreeView |-> FALSE,
                  TimeFormat |-> "15:04:05", FlashOnChange |-> TRUE, ShowIcons |-> TRUE,
                  GroupByStatus |-> FALSE],
     Filter |-> [ShowSynced |-> FALSE, ShowAhead |-> TRUE, ShowBehind |-> TRUE,
                 ShowDirty |-> TRUE, ShowError |-> TRUE, HiddenStates |-> <<>>,
                 OnlyRecent |-> FALSE, RecentDays |-> 7],
     Behavior |-> [AutoRefresh |-> TRUE, RefreshInterval |-> 2000, DefaultMode |-> "tui",
                   WatchFiles |-> TRUE, TTLMode |-> FALSE, TTLSeconds |-> 30,
                   SoundOnChange |-> FALSE, NotifyOnChange |-> FALSE,
                   ExitOnComplete |-> FALSE],
     Notifications |-> [Enabled |-> FALSE,
                        OnStates |-> <<"dirty", "ahead", "behind", "error">>,
                        SoundFile |-> <<>>,
                        Title |-> <<"G", "i", "t", " ", "S", "t", "a", "t", "u", "s", " ",
                                    "U", "p", "d", "a", "t", "e">>,
                        Message |-> <<"R", "e", "p", "o", "s", "i", "t", "o", "r", "y", " ",
                                      "s", "t", "a", "t", "u", "s", " ",
                                      "c", "h", "a", "n", "g", "e", "d">>],
     SkipDirs |-> SkipDirs]

\* the json tags of the fields of UserConfig
JsonTag ==
    [Theme |-> "theme", Performance |-> "performance", Display |-> "display",
     Filter |-> "filter", Behavior |-> "behavior", Notifications |-> "notifications",
     SkipDirs |-> "skip_directories"]

\* json.MarshalIndent(config): an object with one member per field, under the
\* field's tag (the nested structs are kept as they are)
Marshal(config) ==
    [tag \in {JsonTag[f] : f \in DOMAIN JsonTag} |->
        config[CHOOSE f \in DOMAIN JsonTag : JsonTag[f] = tag]]

\* json.Unmarshal(data, &config) into a zero UserConfig: a field whose tag
\* the object has no member for keeps its zero value
Unmarshal(object) ==
    [f \in DOMAIN JsonTag |->
        IF JsonTag[f] \in DOMAIN object THEN object[JsonTag[f]] ELSE ZeroConfig[f]]

\* config.json: not there, not JSON, or a JSON object
NoFile == [kind |-> "absent"]
NotJson == [kind |-> "text"]
JsonFile(object) == [kind |-> "json", object |-> object]

ErrNone == "nil"

\* loadConfig: the defaults go with an error and with a missing file
loadConfig ==
    CASE configFile.kind = "absent" -> [config |-> getDefaultConfig, err |-> ErrNone]
      [] configFile.kind = "text" -> [config |-> getDefaultConfig, err |-> "invalid character"]
      [] configFile.kind = "json" -> [config |-> Unmarshal(configFile.object), err |-> ErrNone]

\* saveConfig writes the whole configuration (the directory is writable)
saveConfig(config) == JsonFile(Marshal(config))

BoolValue(value) == value = StrTrue

\* setDisplayConfig with a default branch that resets the section
setDisplayConfigResets(config, key, value) ==
    [config EXCEPT !.Display =
        IF key = <<"tree_view">> THEN [@ EXCEPT !.TreeView = BoolValue(value)]
        ELSE ZeroConfig.Display]

setDisplayConfig(config, key, value) ==
    CASE key = <<"tree_view">> -> [config EXCEPT !.Display.TreeView = BoolValue(value)]
      [] key = <<"flash_on_change">> -> [config EXCEPT !.Display.FlashOnChange = BoolValue(value)]
      [] key = <<"show_timestamp">> -> [config EXCEPT !.Display.ShowTimestamp = BoolValue(value)]
      [] key = <<"show_branch">> -> [config EXCEPT !.Display.ShowBranch = BoolValue(value)]
      [] key = <<"show_commit">> -> [config EXCEPT !.Display.ShowCommit = BoolValue(value)]
      [] key = <<"compact_mode">> -> [config EXCEPT !.Display.CompactMode = BoolValue(value)]
      [] key = <<"show_icons">> -> [config EXCEPT !.Display.ShowIcons = BoolValue(value)]
      [] key = <<"group_by_status">> -> [config EXCEPT !.Display.GroupByStatus = BoolValue(value)]
      [] OTHER -> config

setFilterConfig(config, key, value) ==
    CASE key = <<"show_synced">> -> [config EXCEPT !.Filter.ShowSynced = BoolValue(value)]
      [] key = <<"show_ahead">> -> [config EXCEPT !.Filter.ShowAhead = BoolValue(value)]
      [] key = <<"show_behind">> -> [config EXCEPT !.Filter.ShowBehind = BoolValue(value)]
      [] key = <<"show_dirty">> -> [config EXCEPT !.Filter.ShowDirty = BoolValue(value)]
      [] key = <<"show_error">> -> [config EXCEPT !.Filter.ShowError = BoolValue(value)]
      [] key = <<"only_recent">> -> [config EXCEPT !.Filter.OnlyRecent = BoolValue(value)]
      [] key = <<"recent_days">> /\ ~Atoi(value).err ->
             [config EXCEPT !.Filter.RecentDays = Atoi(value).n]
      [] OTHER -> config

setBehaviorConfig(config, key, value) ==
    CASE key = <<"auto_refresh">> -> [config EXCEPT !.Behavior.AutoRefresh = BoolValue(value)]
      [] key = <<"refresh_interval">> /\ ~Atoi(value).err ->
             [config EXCEPT !.Behavior.RefreshInterval = Atoi(value).n]
      [] key = <<"watch_files">> -> [config EXCEPT !.Behavior.WatchFiles = BoolValue(value)]
      [] key = <<"ttl_mode">> -> [config EXCEPT !.Behavior.TTLMode = BoolValue(value)]
      [] key = <<"ttl_seconds">> /\ ~Atoi(value).err ->
             [config EXCEPT !.Behavior.TTLSeconds = Atoi(value).n]
      [] key = <<"sound_on_change">> -> [config EXCEPT !.Behavior.SoundOnChange = BoolValue(value)]
      [] key = <<"notify_on_change">> -> [config EXCEPT !.Behavior.NotifyOnChange = BoolValue(value)]
      [] key = <<"exit_on_complete">> -> [config EXCEPT !.Behavior.ExitOnComplete = BoolValue(value)]
      [] OTHER -> config

setPerformanceConfig(config, key, value) ==
    CASE key = <<"workers">> /\ ~Atoi(value).err ->
             [config EXCEPT !.Performance.Workers = Atoi(value).n]
      [] key = <<"timeout">> /\ ~Atoi(value).err ->
             [config EXCEPT !.Performance.Timeout = Atoi(value).n]
      [] key = <<"max_depth">> /\ ~Atoi(value).err ->
             [config EXCEPT !.Performance.MaxDepth = Atoi(value).n]
      [] key = <<"batch_size">> /\ ~Atoi(value).err ->
             [config EXCEPT !.Performance.BatchSize = Atoi(value).n]
      [] OTHER -> config

setNotificationConfig(config, key, value) ==
    CASE key = <<"enabled">> -> [config EXCEPT !.Notifications.Enabled = BoolValue(value)]
      [] key = <<"sound_file">> -> [config EXCEPT !.Notifications.SoundFile = value]
      [] key = <<"title">> -> [config EXCEPT !.Notifications.Title = value]
      [] key = <<"message">> -> [config EXCEPT !.Notifications.Message = value]
      [] OTHER -> config

\* strings.HasPrefix(key, section + "."): the key has a dot after its first
\* part; strings.TrimPrefix leaves the parts after it
HasPrefix(key, section) == Len(key) >= 2 /\ key[1] = section

Sections == {"display", "filter", "behavior", "performance", "notifications"}

\* the command that ran last, and what it returned or printed as its error
Command(name, args, err) == [name |-> name, args |-> args, err |-> err]

NoCommand == Command("none", <<>>, ErrNone)

\* `config set <key> <value>`
setConfigValue(key, value) ==
    LET loaded == loadConfig
        config == loaded.config
        rest == Tail(key)
        set == CASE HasPrefix(key, "display") -> setDisplayConfig(config, rest, value)
                 [] HasPrefix(key, "filter") -> setFilterConfig(config, rest, value)
                 [] HasPrefix(key, "behavior") -> setBehaviorConfig(config, rest, value)
                 [] HasPrefix(key, "performance") -> setPerformanceConfig(config, rest, value)
                 [] HasPrefix(key, "notifications") -> setNotificationConfig(config, rest, value)
                 [] OTHER -> config
    IN  /\ run = "exited"
        /\ IF loaded.err # ErrNone
           THEN /\ cmd' = Command("set", <<key, value>>, loaded.err)
                /\ UNCHANGED configFile
           ELSE IF ~\E section \in Sections : HasPrefix(key, section)
           THEN /\ cmd' = Command("set", <<key, value>>, "Unknown config key")
                /\ UNCHANGED configFile
           ELSE /\ configFile' = saveConfig(set)
                /\ cmd' = Command("set", <<key, value>>, ErrNone)
        /\ UNCHANGED <<given, pass, cache, program, view, history, themeFiles, systemTheme>>

\* hasTheme: a built-in theme, a popular theme, or a file in the themes
\* directory
hasTheme(name) ==
    \/ name \in DOMAIN defaultThemes
    \/ name \in DOMAIN popularThemes
    \/ name \in themeFiles

\* getAutoTheme; detectSystemTheme returns no error
getAutoTheme ==
    CASE systemTheme = "dark" ->
             IF hasTheme("ayu-dark") THEN "ayu-dark"
             ELSE IF hasTheme("catppuccin-mocha") THEN "catppuccin-mocha"
             ELSE IF hasTheme("dracula") THEN "dracula"
             ELSE "matrix"
      [] systemTheme = "light" ->
             IF hasTheme("ayu-light") THEN "ayu-light"
             ELSE IF hasTheme("catppuccin-latte") THEN "catppuccin-latte"
             ELSE "minimal"
      [] OTHER -> "matrix"

\* loadTheme: the built-in themes first, then the themes directory; a theme
\* file holds the theme of its name
loadTheme(name, files) ==
    IF name \in DOMAIN defaultThemes THEN [theme |-> defaultThemes[name], err |-> ErrNone]
    ELSE IF name \in files THEN [theme |-> [Name |-> name], err |-> ErrNone]
    ELSE [theme |-> ZeroConfig.Theme, err |-> "theme not found"]

\* importPopularTheme writes themes/<name>.json
importPopularTheme(name, files) == files \cup {name}

\* `config auto`
setAutoTheme ==
    LET autoTheme == getAutoTheme
        files == IF autoTheme \in DOMAIN popularThemes /\ ~hasTheme(autoTheme)
                 THEN importPopularTheme(autoTheme, themeFiles)
                 ELSE themeFiles
        loadedTheme == loadTheme(autoTheme, files)
        loaded == loadConfig
    IN  /\ run = "exited"
        /\ themeFiles' = files
        /\ IF loadedTheme.err # ErrNone
           THEN /\ cmd' = Command("auto", <<>>, loadedTheme.err)
                /\ UNCHANGED configFile
           ELSE IF loaded.err # ErrNone
           THEN /\ cmd' = Command("auto", <<>>, loaded.err)
                /\ UNCHANGED configFile
           ELSE /\ configFile' = saveConfig([loaded.config EXCEPT !.Theme = loadedTheme.theme])
                /\ cmd' = Command("auto", <<>>, ErrNone)
        /\ UNCHANGED <<given, pass, cache, program, view, history, systemTheme>>

\* `config theme <name>`
setTheme(themeName) ==
    LET loadedTheme == loadTheme(themeName, themeFiles)
        loaded == loadConfig
    IN  /\ run = "exited"
        /\ IF loadedTheme.err # ErrNone
           THEN /\ cmd' = Command("theme", <<themeName>>, loadedTheme.err)
                /\ UNCHANGED configFile
           ELSE IF loaded.err # ErrNone
           THEN /\ cmd' = Command("theme", <<themeName>>, loaded.err)
                /\ UNCHANGED configFile
           ELSE /\ configFile' = saveConfig([loaded.config EXCEPT !.Theme = loadedTheme.theme])
                /\ cmd' = Command("theme", <<themeName>>, ErrNone)
        /\ UNCHANGED <<given, pass, cache, program, view, history, themeFiles, systemTheme>>

\* `config init`: the defaults are saved and the built-in themes are
\* written into the themes directory
initConfig ==
    /\ run = "exited"
    /\ configFile' = saveConfig(getDefaultConfig)
    /\ themeFiles' = themeFiles \cup DOMAIN defaultThemes
    /\ cmd' = Command("init", <<>>, ErrNone)
    /\ UNCHANGED <<given, pass, cache, program, view, history, systemTheme>>

\* `git-status-dash` with the flags the state holds: run() starts the
\* dashboard, whose Init() returns the first scanRepos command and one
\* watchForChanges command.  The depth limit of the scan is config.Depth,
\* the value of --depth (maxDepth).
runDashboard ==
    /\ run = "exited"
    /\ cmd.name # "run"
    /\ cmd' = Command("run", <<>>, ErrNone)
    /\ run' = "running"
    /\ loading' = TRUE
    /\ age' = 0
    /\ msgs' = <<>>
    /\ mRepos' = <<>>
    /\ scans' = StartScan([k \in ScanIds |-> Idle])
    /\ armed' = 1
    /\ UNCHANGED <<given, pass, cache, view, history, showAll, watched, configFile, themeFiles,
                   systemTheme>>

----------------------------------------------------------------------------
(* The specification *)

\* the tree whose only repository is baseDir itself
SingleRepoTree == {<<>>, <<GitDir>>}

\* the directories os.ReadDir can be called on: all but the .git directories
Listable(t) == {p \in t : ~IsGitDir(p)}

\* the choices of unreadable directories
Unreadables(t) == {u \in SUBSET Listable(t) : Cardinality(u) <= MaxUnreadable}

AllHealthy(env) == \A rp \in DOMAIN env : env[rp] = Healthy

\* the walker looks neither at the states of the repositories nor at the
\* worker count: unreadable directories are tried with healthy repositories
\* and no depth limit, the worker counts with healthy repositories and every
\* directory readable
UnreadablesTried(t, limit, env) ==
    IF limit = Unlimited /\ AllHealthy(env) THEN Unreadables(t) ELSE {{}}

WorkerCounts(env, u) ==
    IF u = {} /\ AllHealthy(env) THEN 1 .. MaxWorkers ELSE {MaxWorkers}

\* no dashboard: findGitRepos is looked at on its own
NoProgram ==
    /\ showAll = FALSE
    /\ mRepos = <<>>
    /\ loading = FALSE
    /\ age = 0
    /\ msgs = <<>>
    /\ scans = [k \in ScanIds |-> Idle]
    /\ armed = 0
    /\ watched = {}
    /\ run = "exited"
    /\ cursor = 0
    /\ showDetail = FALSE
    /\ started = 0
    /\ shown = 0

\* the configuration directory is empty and no config subcommand runs
NoSetup ==
    /\ configFile = NoFile
    /\ themeFiles = {}
    /\ systemTheme = "auto"
    /\ cmd = NoCommand

\* findGitRepos has just called walkWithDepth(baseDir, baseDir, 0, maxDepth)
PassStart ==
    /\ stack = Call(<<>>, <<>>, 0)
    /\ probes = <<>>
    /\ wg = 0
    /\ repos = <<>>
    /\ pc = PcAfter(stack)
    /\ cache = EmptyCache
    /\ NoProgram
    /\ NoSetup

\* A pass over any tree, with any depth limit.  A lone repository is tried in every state of GitEnvs, the repositories of
\* the other trees in the states of EnvProfiles.
Init ==
    /\ tree \in Trees
    /\ maxDepth \in DepthLimits
    /\ gitEnv \in [RepoRoots(tree) ->
                      IF tree = SingleRepoTree THEN GitEnvs ELSE EnvProfiles]
    /\ unreadable \in UnreadablesTried(tree, maxDepth, gitEnv)
    /\ workers \in WorkerCounts(gitEnv, unreadable)
    /\ PassStart

Next ==
    \/ WalkGitEntry
    \/ WalkSkipEntry
    \/ WalkRecurse
    \/ WalkReturn
    \/ \E i \in DOMAIN probes : ProbeGoroutine(i)
    \/ FindGitReposReturn

Spec == Init /\ [][Next]_vars

\* the trees of the dashboard runs: two repositories right below the scan
\* root, both found by the walk, and no other directory
TuiTree(t) ==
    /\ Cardinality(RepoRoots(t)) = 2
    /\ RepoRoots(t) = Range(WalkResult)
    /\ \A p \in t : p = <<>> \/ IsGitDir(p) \/ p \in RepoRoots(t)
    /\ \A rp \in RepoRoots(t) : Len(rp) = 1

\* the states of the repositories of the dashboard runs: one is healthy,
\* the others are in different states of EnvProfiles
TuiEnvs(t) ==
    {env \in [RepoRoots(t) -> EnvProfiles] :
        /\ \E rp \in RepoRoots(t) : env[rp] = Healthy
        /\ \A rp, rq \in RepoRoots(t) : rp # rq => env[rp] # env[rq]}

\* runTUI has built the model and Init() has returned its batch: the first
\* scanRepos command and one watchForChanges command (the watcher could be
\* created; setupWatchers finds m.repos empty)
TuiInit ==
    /\ tree \in Trees
    /\ maxDepth = Unlimited
    /\ unreadable = {}
    /\ workers = MaxWorkers
    /\ TuiTree(tree)
    /\ gitEnv \in TuiEnvs(tree)
    /\ stack = <<>>
    /\ probes = <<>>
    /\ wg = 0
    /\ repos = <<>>
    /\ pc = "none"
    /\ cache = EmptyCache
    /\ showAll \in BOOLEAN
    /\ mRepos = <<>>
    /\ loading = TRUE
    /\ age = 0
    /\ msgs = <<>>
    /\ started = 0
    /\ shown = 0
    /\ scans = StartScan([k \in ScanIds |-> Idle])
    /\ armed = 1
    /\ watched = {}
    /\ run = "running"
    /\ cursor = 0
    /\ showDetail = FALSE
    /\ NoSetup

TuiNext ==
    \/ \E key \in {"q", "r"} : KeyPress(key)
    \/ \E k \in ScanIds : ScanWalk(k)
    \/ \E k \in ScanIds : \E rp \in scans[k].pending : ScanProbe(k, rp)
    \/ \E k \in ScanIds : ScanReturn(k)
    \/ UpdateQuit
    \/ UpdateRefresh
    \/ UpdateReposFound
    \/ UpdateFileChange
    \/ Tick
    \/ \E relevant \in BOOLEAN : WatcherEvent(relevant)
    \/ Exit

TuiSpec == TuiInit /\ [][TuiNext]_vars

\* a pass over healthy repositories, with no depth limit or the largest
\* one, and with any choice of unreadable directories
WalkInit ==
    /\ tree \in Trees
    /\ maxDepth \in {Unlimited, MaxDepthLimit}
    /\ gitEnv = [rp \in RepoRoots(tree) |-> Healthy]
    /\ unreadable \in Unreadables(tree)
    /\ workers = MaxWorkers
    /\ PassStart

\* the Go scheduler lets every runnable goroutine run: the walker, the probe
\* goroutines and the waiting findGitRepos all take their steps
FairSpec == WalkInit /\ [][Next]_vars /\ WF_vars(Next)

\* the trees of the configuration runs: one repository, in a directory of
\* baseDir, found by the walk
ConfigTree(t) ==
    /\ \E rp \in RepoRoots(t) :
          /\ Len(rp) = 1
          /\ t = {SubSeq(rp, 1, n) : n \in 0 .. Len(rp)} \cup {Append(rp, GitDir)}
    /\ RepoRoots(t) = Range(WalkResult)

\* a config.json that holds the performance section only
PartialObject == [tag \in {"performance"} |-> getDefaultConfig.Performance]

ConfigFiles ==
    {NoFile, NotJson, JsonFile(PartialObject), JsonFile(Marshal(getDefaultConfig))}

\* the keys and values `config set` is tried with: fields of three sections
\* (an integer and two booleans), a key of a section with no such field, a
\* key without a dot and a key of no section
SetsTried ==
    {<<<<"performance", "max_depth">>, Digits(n)>> : n \in 0 .. MaxDepthLimit}
    \cup {<<<<"performance", "max_depth">>, StrTrue>>,
          <<<<"performance", "max_depth">>, <<"-", "1">>>>,
          <<<<"display", "tree_view">>, StrTrue>>,
          <<<<"display", "tree_view">>, StrFalse>>,
          <<<<"notifications", "enabled">>, StrTrue>>,
          <<<<"notifications", "enabled">>, Digits(1)>>,
          <<<<"display", "nope">>, StrTrue>>,
          <<<<"performance">>, Digits(1)>>,
          <<<<"theme", "name">>, StrTrue>>}

ThemesTried == {"minimal", "ayu-dark", "solarized"}

\* A shell in which config subcommands run one after the other, over any of
\* the configuration files, and in which the dashboard is then started,
\* without --depth or with --depth 0.
ConfigInit ==
    /\ tree \in Trees
    /\ maxDepth \in {Unlimited, 0}
    /\ unreadable = {}
    /\ ConfigTree(tree)
    /\ gitEnv = [rp \in RepoRoots(tree) |-> Healthy]
    /\ workers = MaxWorkers
    /\ stack = <<>>
    /\ probes = <<>>
    /\ wg = 0
    /\ repos = <<>>
    /\ pc = "none"
    /\ cache = EmptyCache
    /\ NoProgram
    /\ configFile \in ConfigFiles
    /\ themeFiles \in SUBSET {"ayu-dark"}
    /\ systemTheme \in {"dark", "light", "auto"}
    /\ cmd = NoCommand

ConfigNext ==
    \/ \E set \in SetsTried : setConfigValue(set[1], set[2])
    \/ setAutoTheme
    \/ \E themeName \in ThemesTried : setTheme(themeName)
    \/ initConfig
    \/ runDashboard
    \/ \E k \in ScanIds : ScanWalk(k)
    \/ \E k \in ScanIds : \E rp \in scans[k].pending : ScanProbe(k, rp)
    \/ \E k \in ScanIds : ScanReturn(k)
    \/ UpdateReposFound

ConfigSpec == ConfigInit /\ [][ConfigNext]_vars

\* the keys pressed in the runs of ViewSpec
ViewKeys == {"up", "down", "enter", "esc", "r"}

\* the refresh keys that wait for Update
RefreshesWaiting == {i \in DOMAIN msgs : msgs[i] = KeyMsg("r")}

\* The dashboard over two repositories that both have work to show, which
\* is pushed while the dashboard runs.  The scans are counted from the
\* first one, the scan of Init(), and MaxScans scans are started in all.
ViewInit ==
    /\ tree \in Trees
    /\ maxDepth = Unlimited
    /\ unreadable = {}
    /\ workers = MaxWorkers
    /\ TuiTree(tree)
    /\ gitEnv \in {env \in [RepoRoots(tree) -> EnvProfiles \ {Healthy}] :
                      \A rp, rq \in RepoRoots(tree) : rp # rq => env[rp] # env[rq]}
    /\ stack = <<>>
    /\ probes = <<>>
    /\ wg = 0
    /\ repos = <<>>
    /\ pc = "none"
    /\ cache = EmptyCache
    /\ showAll = FALSE
    /\ mRepos = <<>>
    /\ loading = TRUE
    /\ age = 0
    /\ msgs = <<>>
    /\ started = 1
    /\ shown = 0
    /\ scans = [[k \in ScanIds |-> Idle] EXCEPT ![1] = [NewScan EXCEPT !.no = 1]]
    /\ armed = 1
    /\ watched = {}
    /\ run = "running"
    /\ cursor = 0
    /\ showDetail = FALSE
    /\ NoSetup

ViewNext ==
    \/ \E key \in ViewKeys :
          /\ key = "r" => started + Cardinality(RefreshesWaiting) < MaxScans
          /\ KeyPress(key)
    \/ \E k \in ScanIds : ScanWalk(k)
    \/ \E k \in ScanIds : \E rp \in scans[k].pending : ScanProbe(k, rp)
    \/ \E k \in ScanIds : ScanReturn(k)
    \/ UpdateUp
    \/ UpdateDown
    \/ UpdateEnter
    \/ UpdateEsc
    \/ UpdateRefresh
    \/ UpdateReposFound
    \/ \E rp \in RepoRoots(tree) : RepoChanges(rp)

ViewSpec == ViewInit /\ [][ViewNext]_vars

----------------------------------------------------------------------------
(* Properties of a scan pass *)

\* the directories in which the walker found a .git directory
Discovered == {probes[i].rp : i \in DOMAIN probes}

\* the positions of the results for repository rp
ResultsFor(rp) == {j \in DOMAIN repos : repos[j].RepoPath = rp}

\* the state of the repository a result is about
EnvOf(r) == gitEnv[r.RepoPath]

ErrorMessage == [fmt |-> "Error accessing repository", args |-> <<>>]

\* the status query of a repository in state e fails: git exits non-zero
\* or the deadline expires while it runs
StatusQueryFails(e) == e.status = "fail" \/ e.hang = QStatus

\* the status, ahead and behind queries of a repository in state e all succeed
CountsObtained(e) ==
    /\ e.status # "fail"
    /\ e.ahead >= 0
    /\ e.behind >= 0
    /\ (e.hang = 0 \/ e.hang > QBehind)

\* C1: when findGitRepos has returned, every probe goroutine the walker
\* started has finished and appended, and for every directory in which the
\* walker found .git the result list holds exactly one GitStatus with that
\* RepoPath (none missing, none duplicated), also for repositories whose
\* status query fails or whose deadline expires.
C1_OneResultPerRepository ==
    pc = "done" =>
        /\ Len(repos) = Len(probes)
        /\ \A i \in DOMAIN probes :
              /\ probes[i].done
              /\ Cardinality(ResultsFor(probes[i].rp)) = 1

\* a pass has returned two results, one for a repository whose status query
\* fails and one for a repository whose deadline expired
C1_Witness ==
    /\ pc = "done"
    /\ Len(repos) = 2
    /\ \E j, k \in DOMAIN repos :
          /\ EnvOf(repos[j]).status = "fail"
          /\ EnvOf(repos[k]).hang # 0
          /\ repos[j].RepoPath # repos[k].RepoPath

\* C2: when the status query succeeds and the ahead and behind counts are
\* obtained, the result follows the classification table: Synced/"Up to
\* date" iff not dirty, ahead = 0 and behind = 0; Diverged with both counts
\* whenever ahead > 0 and behind > 0; Ahead with the count whenever ahead > 0
\* and behind = 0; Behind with the count whenever ahead = 0 and behind > 0;
\* Dirty/"Uncommitted changes" iff dirty, ahead = 0 and behind = 0.  A dirty
\* tree does not change the Diverged, Ahead and Behind rows.
C2_ClassificationTable ==
    \A j \in DOMAIN repos :
        LET r == repos[j]
            e == EnvOf(r)
            dirty == e.status = "dirty"
            a == e.ahead
            b == e.behind
        IN  CountsObtained(e) =>
              /\ (~dirty /\ a = 0 /\ b = 0) <=> (r.Symbol = SymSynced)
              /\ r.Symbol = SymSynced => r.Message = [fmt |-> "Up to date", args |-> <<>>]
              /\ (a > 0 /\ b > 0) =>
                    /\ r.Symbol = SymDiverged
                    /\ r.Message = [fmt |-> "Diverged (%s ahead, %s behind)",
                                    args |-> <<Digits(a), Digits(b)>>]
              /\ (a > 0 /\ b = 0) =>
                    /\ r.Symbol = SymAhead
                    /\ r.Message = [fmt |-> "%s commit(s) to push", args |-> <<Digits(a)>>]
              /\ (a = 0 /\ b > 0) =>
                    /\ r.Symbol = SymBehind
                    /\ r.Message = [fmt |-> "%s commit(s) to pull", args |-> <<Digits(b)>>]
              /\ (dirty /\ a = 0 /\ b = 0) <=> (r.Symbol = SymDirty)
              /\ r.Symbol = SymDirty =>
                    r.Message = [fmt |-> "Uncommitted changes", args |-> <<>>]

\* a dirty repository that is ahead and behind has been reported as Diverged
C2_Witness ==
    \E j \in DOMAIN repos :
        /\ CountsObtained(EnvOf(repos[j]))
        /\ EnvOf(repos[j]).status = "dirty"
        /\ EnvOf(repos[j]).ahead = 2
        /\ EnvOf(repos[j]).behind = 1
        /\ repos[j].Symbol = SymDiverged

C4_StatusFailureIsError ==
    /\ \A i \in DOMAIN probes : probes[i].done => ResultsFor(probes[i].rp) # {}
    /\ \A j \in DOMAIN repos :
          StatusQueryFails(EnvOf(repos[j])) =>
              /\ repos[j].Symbol = SymError
              /\ repos[j].Message = ErrorMessage

\* a repository whose status query fails while its rev-list queries would
\* report it ahead has been reported as Error
C4_Witness ==
    \E j \in DOMAIN repos :
        /\ EnvOf(repos[j]).status = "fail"
        /\ EnvOf(repos[j]).hang = 0
        /\ EnvOf(repos[j]).ahead > 0
        /\ EnvOf(repos[j]).behind = 0
        /\ repos[j].Symbol = SymError

\* C5: a probe whose deadline expired, during whichever query, has a result
\* of kind Error whose message is not "Error accessing repository".
C5_TimeoutIsDistinctError ==
    \A j \in DOMAIN repos :
        EnvOf(repos[j]).hang # 0 =>
            /\ repos[j].Symbol = SymError
            /\ repos[j].Message # ErrorMessage

\* C6: every result has the kind and the detail that getGitStatus gives for
\* the state of its own repository, whatever happens to the other probes of
\* the pass, and a pass that has returned holds a result for every
\* repository it discovered.
C6_FailureIsolation ==
    /\ \A j \in DOMAIN repos :
          LET alone == getGitStatus(repos[j].RepoPath, EnvOf(repos[j]))
          IN  /\ repos[j].Symbol = alone.Symbol
              /\ repos[j].Message = alone.Message
    /\ pc = "done" => \A rp \in Discovered : ResultsFor(rp) # {}

\* a pass has returned in which the deadline of one repository expired and
\* another repository was reported as Synced
C6_Witness ==
    /\ pc = "done"
    /\ \E j, k \in DOMAIN repos :
          /\ EnvOf(repos[j]).hang # 0
          /\ repos[j].Symbol = SymError
          /\ EnvOf(repos[k]).hang = 0
          /\ repos[k].Symbol = SymSynced

\* C7: no repository located beneath a discovered repository root is
\* discovered in the same pass.
C7_NoRepositoryBelowRepository ==
    \A i, j \in DOMAIN probes : ~IsProperPrefix(probes[i].rp, probes[j].rp)

\* the names on path p are all outside the set names
AvoidsNames(p, names) == \A k \in DOMAIN p : p[k] \notin names

\* the directories from the scan root down to d
PathTo(d) == {SubSeq(d, 1, k) : k \in 0 .. Len(d)}

\* d and every directory above it can be read
Readable(d) == PathTo(d) \cap unreadable = {}

\* repository root d is deep enough for the limit, lies under no skipped
\* name and under no other repository root, and is reached through readable
\* directories
Eligible(d) ==
    /\ Readable(d)
    /\ maxDepth = Unlimited \/ Len(d) <= maxDepth
    /\ AvoidsNames(d, {"node_modules", ".cache", ".venv"})
    /\ \A a \in RepoRoots(tree) : ~IsProperPrefix(a, d)

\* C8: with the scan root at depth 0 and a finite depth limit k no
\* repository root deeper than k is discovered; once the walk is over every
\* repository root at depth <= k (any depth when the limit is -1) that lies
\* under no skipped name and under no other repository, and is reached
\* through readable directories, has been discovered.
\* The Node.js walker obeys the same two rules.
C8_DepthLimit ==
    /\ \A d \in Discovered : maxDepth # Unlimited => Len(d) <= maxDepth
    /\ pc # "walk" => \A d \in RepoRoots(tree) : Eligible(d) => d \in Discovered
    /\ pc = "done" =>
          /\ \A d \in NodeRepos : maxDepth # Unlimited => Len(d) <= maxDepth
          /\ \A d \in RepoRoots(tree) : Eligible(d) => d \in NodeRepos

\* a pass with depth limit 1 has returned: it discovered a repository at
\* depth 1 and left the repository at depth 2 undiscovered
C8_Witness ==
    /\ pc = "done"
    /\ maxDepth = 1
    /\ \E d \in Discovered : Len(d) = 1
    /\ \E d \in RepoRoots(tree) : Len(d) = 2 /\ d \notin Discovered

\* C9: no discovered repository has node_modules, .cache or .venv among the
\* names of its path below the scan root, whatever the depth limit; the
\* same holds of the Node.js walker.
C9_SkippedNamesNeverDiscovered ==
    /\ \A d \in Discovered : AvoidsNames(d, {"node_modules", ".cache", ".venv"})
    /\ pc = "done" =>
          \A d \in NodeRepos : AvoidsNames(d, {"node_modules", ".cache", ".venv"})

\* an unlimited pass has returned over a tree with a repository two levels
\* down whose path passes through node_modules, and did not discover it
C9_Witness ==
    /\ pc = "done"
    /\ maxDepth = Unlimited
    /\ \E d \in RepoRoots(tree) :
          /\ Len(d) = 2
          /\ d[1] = "node_modules"
          /\ d \notin Discovered

\* C10: no discovered repository lies under a directory whose name is in
\* the skip list the configuration carries (UserConfig.SkipDirs).
C10_ConfigSkipDirsHonoured ==
    \A d \in Discovered : AvoidsNames(d, SkipDirs)

----------------------------------------------------------------------------
(* Unreadable directories *)

\* what C11 says of every state of a pass
C11_Skipped ==
    /\ \A d \in Discovered : Readable(d)
    /\ pc # "walk" => \A d \in RepoRoots(tree) : Eligible(d) => d \in Discovered
    /\ pc = "done" =>
          /\ \A d \in NodeRepos : (PathTo(d) \ {d}) \cap unreadable = {}
          /\ \A d \in RepoRoots(tree) : Eligible(d) => d \in NodeRepos

\* C11: a directory that cannot be read contributes nothing (no repository
\* is discovered in it or below it) and raises no error; the walk goes on
\* with its siblings, so that every repository root the walker's rules admit
\* and that is reached through readable directories is discovered; and the
\* pass terminates: findGitRepos returns.  The Node.js walker skips an
\* unreadable directory in the same way.
C11_UnreadableDirectorySkipped == []C11_Skipped /\ <>(pc = "done")

\* a pass has returned: a directory could not be read, a repository below
\* it (or the directory itself) was not discovered, and a sibling that the
\* walker reached after the failed read was
C11_Witness ==
    /\ pc = "done"
    /\ \E u \in unreadable, r \in RepoRoots(tree), d \in Discovered :
          /\ Len(u) = 1
          /\ IsPrefix(u, r)
          /\ r \notin Discovered
          /\ Len(d) = 1
          /\ \E i, j \in DOMAIN DirNames : i < j /\ u[1] = DirNames[i] /\ d[1] = DirNames[j]

----------------------------------------------------------------------------
(* The order of the result list *)

\* C12: the list findGitRepos returns is ordered by ModTime, most recently
\* modified first, whatever the order in which the probes finished.
C12_SortedByModTime ==
    pc = "done" =>
        \A i, j \in DOMAIN repos : i < j => repos[i].ModTime >= repos[j].ModTime

\* a pass has returned two results with different modification times, and
\* the repository whose probe was started first is the second of the list
C12_Witness ==
    /\ pc = "done"
    /\ Len(repos) = 2
    /\ repos[1].ModTime > repos[2].ModTime
    /\ probes[1].rp = repos[2].RepoPath

\* the place of repository rp in the order of discovery
DiscoveryIndex(rp) == CHOOSE k \in DOMAIN probes : probes[k].rp = rp

\* C13: results with equal ModTime appear in the order in which the walker
\* discovered their repositories (the sort is stable), so that two passes
\* over an unchanged tree order them identically.
C13_TiesInDiscoveryOrder ==
    pc = "done" =>
        \A i, j \in DOMAIN repos :
            i < j /\ repos[i].ModTime = repos[j].ModTime =>
                DiscoveryIndex(repos[i].RepoPath) < DiscoveryIndex(repos[j].RepoPath)

----------------------------------------------------------------------------
(* The displayed list *)

\* Update handles the reposFoundMsg at the head of the queue
ReposFoundStep == Handling("reposFound") /\ msgs' = Tail(msgs) /\ run' = "running"

\* C14: with show-all off the list displayed after a scan is exactly the
\* subsequence of the sorted results whose kind is not Synced, in the same
\* relative order; with show-all on it is the full sorted sequence.  No
\* result of kind Error is filtered out, and filtering starts no probe.
C14_DisplayedIsUnsyncedSubsequence ==
    [][ReposFoundStep =>
          LET sorted == Head(msgs).repos
          IN  /\ mRepos' = IF showAll THEN sorted
                           ELSE SelectSeq(sorted, LAMBDA r : r.Symbol # SymSynced)
              /\ \A i \in DOMAIN sorted :
                    sorted[i].Symbol = SymError =>
                        \E j \in DOMAIN mRepos' : mRepos'[j] = sorted[i]
              /\ scans' = scans]_vars

\* with show-all off the dashboard displays one result, of kind Error, of a
\* tree whose other repository is Synced
C14_Witness ==
    /\ ~showAll
    /\ Len(mRepos) = 1
    /\ mRepos[1].Symbol = SymError
    /\ \E rp \in RepoRoots(tree) : getGitStatus(rp, gitEnv[rp]).Symbol = SymSynced

----------------------------------------------------------------------------
(* Concurrency of the probes *)

\* the goroutines that have been started and have not finished
InFlight == {i \in DOMAIN probes : ~probes[i].done}

\* C15: the number of probes running at the same time never exceeds the
\* configured worker count.
C15_ProbesBoundedByWorkers == Cardinality(InFlight) <= workers

----------------------------------------------------------------------------
(* Idempotence of a pass *)

\* what a pass reports of a repository
Outcome(r) == [path |-> r.RepoPath, kind |-> r.Symbol, detail |-> r.Message]

\* what the tree, the depth limit and the states of the repositories
\* determine: the repositories of the walk, each with the result of its own
\* queries
PassOutcome ==
    {Outcome(getGitStatus(WalkResult[k], gitEnv[WalkResult[k]])) : k \in DOMAIN WalkResult}

\* C20: two passes over the same root, with no change in the tree, in the
\* states of the repositories and in the outcomes of the queries (deadlines
\* included), yield the same set of repositories with the same kind and
\* detail each: the repositories a pass discovers and the set of results it
\* returns are determined by the tree, the depth limit and the query
\* outcomes alone, not by the order in which its goroutines run.
C20_PassIsIdempotent ==
    /\ pc # "walk" => [i \in DOMAIN probes |-> probes[i].rp] = WalkResult
    /\ pc = "done" => {Outcome(repos[j]) : j \in DOMAIN repos} = PassOutcome

\* a pass has returned two results of different kinds, one of them for a
\* repository whose deadline expired
C20_Witness ==
    /\ pc = "done"
    /\ Len(repos) = 2
    /\ repos[1].Symbol # repos[2].Symbol
    /\ \E j \in DOMAIN repos : EnvOf(repos[j]).hang # 0

\* C16: no two probes of the same repository path are in flight at the same
\* time, also when a refresh ('r') or a file-change rescan is requested
\* while an earlier scan is still running.
C16_NoTwoProbesOfOnePath ==
    \A k1, k2 \in ScanIds :
        k1 # k2 => scans[k1].pending \cap scans[k2].pending = {}

\* C17: once the user has quit during a scan, no new probe is started and
\* no probe in flight is waited on until it delivers its result.
C17_QuitStopsProbes ==
    [][run = "quit" =>
          \A k \in ScanIds :
              /\ scans'[k].pending \subseteq scans[k].pending
              /\ scans'[k].results = scans[k].results \/ scans'[k] = Idle]_vars

----------------------------------------------------------------------------
(* The cache *)

\* C18: every probe that has completed has written its result into the
\* cache under the path of its repository, whatever the kind of the result.
C18_CompletedProbeIsCached ==
    \A j \in DOMAIN repos :
        /\ repos[j].RepoPath \in DOMAIN cache
        /\ cache[repos[j].RepoPath] = repos[j]

\* Update handles the key "r" at the head of the queue
RefreshStep ==
    Handling("key") /\ Head(msgs).key = "r" /\ msgs' = Tail(msgs) /\ run' = "running"

\* the results a scan holds are those of the probes it has run itself: of
\* the repositories of its own walk that are no longer pending, each with
\* what getGitStatus returns for it
OwnResults(scan) ==
    /\ {scan.results[i].RepoPath : i \in DOMAIN scan.results}
           = Range(WalkResult) \ scan.pending
    /\ \A i \in DOMAIN scan.results :
          scan.results[i] = getGitStatus(scan.results[i].RepoPath,
                                         gitEnv[scan.results[i].RepoPath])

\* C19: the handling of a manual refresh ('r') leaves the cache empty and
\* starts a new scan, which holds no result yet; a scan takes no result
\* from a cache entry (the cache has none): every result it holds comes
\* from a probe it has run itself, hence after the refresh that started it.
C19_RefreshForcesFullRescan ==
    /\ [][RefreshStep =>
            /\ cache' = EmptyCache
            /\ \E k \in ScanIds :
                  /\ scans[k] = Idle
                  /\ scans'[k] = NewScan
                  /\ \A j \in ScanIds \ {k} : scans'[j] = scans[j]]_vars
    /\ [](/\ DOMAIN cache = {}
          /\ \A k \in ScanIds : scans[k].phase = "probing" => OwnResults(scans[k]))

\* nothing is watched, so that no file change has started a scan; the first
\* scan is still in flight and the scan of the second slot, started by a
\* refresh, has run a probe
C19_Witness ==
    /\ watched = {}
    /\ loading
    /\ scans[1].phase # "idle"
    /\ scans[2].phase = "probing"
    /\ scans[2].results # <<>>

----------------------------------------------------------------------------
(* The branch and last-commit queries *)

\* C21: the outcomes of the branch-name query and of the last-commit query
\* never influence the classification (a probe of a repository that differs
\* only in those outcomes returns the same kind and detail), and a branch or
\* last-commit query that fails leaves its field empty.
C21_BranchAndCommitOnlyFillFields ==
    \A j \in DOMAIN repos :
        LET r == repos[j]
            e == EnvOf(r)
        IN  /\ \A b \in {"ok", "unborn", "fail"}, c \in BOOLEAN :
                  LET other == getGitStatus(r.RepoPath, [e EXCEPT !.branch = b, !.commit = c])
                  IN  other.Symbol = r.Symbol /\ other.Message = r.Message
            /\ Output(e, QBranch).err => r.Branch = <<>>
            /\ Output(e, QCommit).err => r.LastCommit = <<>>

\* the repositories scan k of the dashboard has started probes for
ScanDiscovered(k) ==
    scans[k].pending \cup {scans[k].results[j].RepoPath : j \in DOMAIN scans[k].results}

\* C22: once `config set performance.max_depth k` has persisted a finite
\* limit k, a scan of a dashboard started without --depth discovers no
\* repository more than k levels below the scan root.
C22_PersistedDepthGovernsWalker ==
    \A k \in ScanIds :
        (/\ cmd.name = "run"
         /\ maxDepth = Unlimited
         /\ configFile.kind = "json"
         /\ loadConfig.config.Performance.MaxDepth >= 0
         /\ scans[k].phase = "probing")
        => \A rp \in ScanDiscovered(k) :
               Len(rp) <= loadConfig.config.Performance.MaxDepth

\* C23: `config auto` run in a fresh configuration directory (no config.json,
\* no theme file) on a system detected as dark or light, where the theme it
\* recommends is a popular theme without a file in the themes directory,
\* returns no error, writes that theme's file and saves the theme as the
\* active one.
C23_AutoThemeFromFreshDirectory ==
    [][(/\ setAutoTheme
        /\ configFile = NoFile
        /\ themeFiles = {}
        /\ systemTheme \in {"dark", "light"}
        /\ getAutoTheme \in DOMAIN popularThemes)
       => /\ cmd'.err = ErrNone
          /\ getAutoTheme \in themeFiles'
          /\ configFile'.kind = "json"
          /\ Unmarshal(configFile'.object).Theme.Name = getAutoTheme]_vars

\* the field of UserConfig a key of `config set` names, as <<section, field>>
\* (<<>>: the key names no field)
FieldNamed(key) ==
    CASE key = <<"performance", "max_depth">> -> <<"Performance", "MaxDepth">>
      [] key = <<"display", "tree_view">> -> <<"Display", "TreeView">>
      [] key = <<"notifications", "enabled">> -> <<"Notifications", "Enabled">>
      [] OTHER -> <<>>

\* configurations a and b differ in no field but the one named
SameButFor(a, b, named) ==
    /\ a.SkipDirs = b.SkipDirs
    /\ \A f \in DOMAIN JsonTag \ {"SkipDirs"} :
          /\ DOMAIN a[f] = DOMAIN b[f]
          /\ \A g \in DOMAIN a[f] : <<f, g>> # named => a[f][g] = b[f][g]

\* C30: `config set <key> <value>` changes no field of the configuration,
\* as loadConfig reads it before and after, but the one the key names; with
\* a key whose section is not recognized, or with a configuration that
\* cannot be loaded, config.json is not written.
C30_SetChangesOnlyNamedField ==
    [][cmd'.name = "set" =>
           LET key == cmd'.args[1]
           IN  /\ SameButFor(loadConfig.config, loadConfig'.config, FieldNamed(key))
               /\ (loadConfig.err # ErrNone \/ ~\E section \in Sections : HasPrefix(key, section))
                      => configFile' = configFile]_vars

\* two fields were set one after the other, and the first is still there
C30_Witness ==
    /\ cmd.name = "set"
    /\ cmd.err = ErrNone
    /\ loadConfig.config.Performance.MaxDepth = 1
    /\ loadConfig.config.Display.TreeView
    /\ loadConfig.config.Notifications.Enabled
    /\ loadConfig.config.Filter = getDefaultConfig.Filter

----------------------------------------------------------------------------
(* The watcher and the scanning indicator *)

\* the fileChangeMsg messages that wait for Update
FileChangesWaiting == {i \in DOMAIN msgs : msgs[i] = FileChangeMsg}

\* C26: while the program runs, a watchForChanges listener is pending again
\* once a watcher event has been handled, whatever the event was: a listener
\* waits for the next event, or a fileChangeMsg is on its way to the handler
\* that starts one.
C26_ListenerPendingAgain ==
    run = "running" => armed + Cardinality(FileChangesWaiting) >= 1

\* C27: a fileChangeMsg handled within the debounce window is not lost: when
\* its handler returns, something is left that leads to a rescan without a
\* further event (a scan under way or a message waiting for Update).
C27_DebouncedChangeStartsRescan ==
    [][(UpdateFileChange /\ age <= Debounce)
       => (Active(scans') # {} \/ msgs' # <<>>)]_vars

\* a scanRepos command runs, or its reposFoundMsg waits for Update
ScanInFlight ==
    \/ Active(scans) # {}
    \/ \E i \in DOMAIN msgs : msgs[i].type = "reposFound"

\* C28: while the program runs, loading is true exactly when a scan is in
\* flight: the indicator is on as long as a scan has not delivered, and off
\* once the last one has.
C28_LoadingIffScanInFlight ==
    run = "running" => (loading <=> ScanInFlight)

----------------------------------------------------------------------------
(* The two walkers *)

\* C29: whatever the tree and the depth limit, a finished pass of the Go
\* walker has discovered exactly the repository roots the Node.js walker
\* returns for the same tree and limit.
C29_WalkersDiscoverSameRoots ==
    pc = "done" => Discovered = NodeRepos

----------------------------------------------------------------------------
(* The cursor and the order of the scan results *)

\* C24: while the dashboard runs, the cursor is an index of the list
\* whenever the list is not empty, and no key press makes Update index the
\* list out of range.
C24_CursorIsValidIndex ==
    /\ (run = "running" /\ mRepos # <<>>) => InRange(cursor, mRepos)
    /\ run # "panic"

\* C25: once every scan that was started has delivered its result, the list
\* on display is the result of the scan that was started last.
C25_LastStartedScanIsShown ==
    (run = "running" /\ started > 0 /\ ~ScanInFlight) => shown = started

====
